---- MODULE Spec2Model ----
(***************************************************************************)
(* Amortization engine of the mortgage calculator                          *)
(* (calculate_monthly_payment in src/logic.py).                            *)
(*                                                                         *)
(* Python's float is IEEE-754 binary floating point: every arithmetic      *)
(* operation returns the exact result rounded to the nearest representable *)
(* value, ties to even.  The model keeps exactly that semantics with a     *)
(* significand of Precision bits instead of 53 and an unbounded exponent.  *)
(* A float is the record [m, e] standing for m * 2^e, kept canonical       *)
(* (m odd, or m = 0 and e = 0), so equal values are equal records.         *)
(***************************************************************************)
EXTENDS Integers, Sequences, FiniteSets, TLC

(* Bits of significand of the model's floats (binary64 has 53). *)
Precision == 13

(* Largest loan term, in years, of the configurations explored. *)
MaxYears == 2

-----------------------------------------------------------------------------
(* Floating point arithmetic *)

Abs(n) == IF n < 0 THEN -n ELSE n

Sgn(n) == IF n < 0 THEN -1 ELSE IF n > 0 THEN 1 ELSE 0

Pow2(k) == 2 ^ k

(* Number of bits of the natural number n (0 for n = 0). *)
BitLen(n) == CHOOSE k \in 0..30 : n < Pow2(k) /\ (k = 0 \/ Pow2(k - 1) <= n)

(* Number of trailing zero bits of n # 0. *)
TrailingZeros(n) ==
    CHOOSE k \in 0..30 : n % Pow2(k) = 0 /\ n % Pow2(k + 1) # 0

(* The canonical record of the value n * 2^e. *)
Canon(n, e) ==
    IF n = 0 THEN [m |-> 0, e |-> 0]
    ELSE LET z == TrailingZeros(Abs(n))
         IN  [m |-> Sgn(n) * (Abs(n) \div Pow2(z)), e |-> e + z]

(* n * 2^e rounded to Precision significant bits, to nearest, ties to even. *)
Round(n, e) ==
    LET a == Abs(n)
        s == BitLen(a) - Precision
    IN  IF s <= 0 THEN Canon(n, e)
        ELSE LET q    == a \div Pow2(s)
                 rem  == a % Pow2(s)
                 half == Pow2(s - 1)
                 up   == rem > half \/ (rem = half /\ q % 2 = 1)
             IN  Canon(Sgn(n) * (IF up THEN q + 1 ELSE q), e + s)

(* int -> float conversion. *)
F(n) == Round(n, 0)

FNeg(x) == [m |-> -x.m, e |-> x.e]

(* Exponent of the bit above the leading bit of x # 0. *)
Top(x) == x.e + BitLen(Abs(x.m))

FAdd(x, y) ==
    IF x.m = 0 THEN y
    ELSE IF y.m = 0 THEN x
    ELSE IF Top(x) - Top(y) >= Precision + 2 THEN x
    ELSE IF Top(y) - Top(x) >= Precision + 2 THEN y
    ELSE LET lo == IF x.e < y.e THEN x.e ELSE y.e
         IN  Round(x.m * Pow2(x.e - lo) + y.m * Pow2(y.e - lo), lo)

FSub(x, y) == FAdd(x, FNeg(y))

FMul(x, y) == Round(x.m * y.m, x.e + y.e)

(* x / y for y # 0: the quotient of the significands to Precision + 2 bits *)
(* and a sticky bit for the remainder, then rounded.                       *)
FDiv(x, y) ==
    IF x.m = 0 THEN x
    ELSE LET sx == Precision - BitLen(Abs(x.m))
             sy == Precision - BitLen(Abs(y.m))
             ax == Abs(x.m) * Pow2(sx)
             ay == Abs(y.m) * Pow2(sy)
             nn == ax * Pow2(Precision + 2)
             q  == nn \div ay
             st == IF nn % ay = 0 THEN 0 ELSE 1
         IN  Round(Sgn(x.m) * Sgn(y.m) * (2 * q + st),
                   (x.e - sx) - (y.e - sy) - (Precision + 2) - 1)

(* acc times x, n times over, each product rounded; a zero stays zero. *)
RECURSIVE PowFrom(_, _, _)
PowFrom(acc, x, n) ==
    IF acc.m = 0 \/ n = 0 THEN acc ELSE PowFrom(FMul(acc, x), x, n - 1)

(* x ** n for an int n >= 0. *)
FPow(x, n) == PowFrom(F(1), x, n)

FLt(x, y) == FSub(x, y).m < 0
FLe(x, y) == FSub(x, y).m <= 0
FGe(x, y) == FLe(y, x)
FGt(x, y) == FLt(y, x)

FMax(x, y) == IF FGt(y, x) THEN y ELSE x

Zero == F(0)

-----------------------------------------------------------------------------
(* Arguments of one call *)

Loans == {1000, 1200}

Years == 1..MaxYears

RateLists == {<<>>, <<12>>, <<24, 12>>, <<6>>, <<12, 0>>}

Minimums == {0, 100}

Additionals == {0, 1, 70, 1200}

Cycles == {0, 1, 2}

(* Line 11: the default of refinance_when_principal_hit. *)
DefaultThreshold == 3000000

Thresholds == {600, 1200, DefaultThreshold}

Increases == {1}

TopupMonths == {0, 7}

TopupAmounts == {0, 200}

Args ==
    [loan : Loans,
     years : Years,
     interest_rates_100 : RateLists,
     minimum_monthly_payment : Minimums,
     additional_payment : Additionals,
     refinance : BOOLEAN,
     refinance_every_x_years : Cycles,
     refinance_when_principal_hit : Thresholds,
     refinance_interest_will_increase : Increases,
     topup : BOOLEAN,
     topup_every_x_month : TopupMonths,
     topup_amount : TopupAmounts]

VARIABLES
    args,                      \* the arguments of the call (lines 3-16)
    pc,                        \* "call", "year", "month", "yearend", "done", "error"
    error,                     \* the message of the exception raised, "" if none
    rates,                     \* the local interest_rates_100 (lines 28-29)
    hist,                      \* the rows emitted so far (lines 35-45)
    months_left,               \* line 47
    current_month,             \* line 48
    principal_left,            \* line 49
    interest_rate_increase,    \* line 50
    i,                         \* loan-year index of the outer loop (line 52)
    j,                         \* month index of the inner loop (line 66)
    interest_rate,             \* lines 53-56
    interest_rate_monthly,     \* line 58
    required_monthly_payment,  \* line 64
    branch,                    \* payoff-clamp branch taken by the last row (0: none)
    rate_list,                 \* what the list object passed as interest_rates_100
                               \* (the caller's, or the default of line 6) holds
    returned,                  \* the arguments and outcomes of the earlier calls
    self,                      \* the fields of MortgageState (state.py lines 7-29)
    heap,                      \* the list objects the front ends share by reference
    session,                   \* st.session_state of the dashboard
    page                       \* what the last run of a front end displayed

vars == <<args, pc, error, rates, hist, months_left, current_month,
          principal_left, interest_rate_increase, i, j, interest_rate,
          interest_rate_monthly, required_monthly_payment, branch, rate_list,
          returned, self, heap, session, page>>

(* The state of the front ends, which the engine never reads or writes. *)
frontEnd == <<self, heap, session, page>>

(* No front end: the engine is called directly. *)
NoFrontEnd ==
    /\ self = "none"
    /\ heap = <<>>
    /\ session = "none"
    /\ page = "none"

-----------------------------------------------------------------------------
(* Validation and rate-schedule derivation *)

MsgEmpty == "interest_rates_100 must not be empty"
MsgRates == "All interest rates must be greater than 0"
MsgThreshold == "Principal hit point must be less than the full loan amount"
MsgCycle == "refinance cycle must be greater than 0"
MsgMoreRates == "more rates than refinance cycle is needed"
MsgTopupCycle == "topup cycle must be greater than 0"
MsgTopupAmount == "topup amount must be greater than 0"
MsgZeroDivision == "float division by zero"

(* Mutant: any() where the code has all(). *)
SomeRatePositive(rs) == \E k \in 1..Len(rs) : rs[k] > 0

AllRatesPositive(rs) == \A k \in 1..Len(rs) : rs[k] > 0

(* Mutant: <= where the code has <. *)
ThresholdAtMostLoan(a) == a.refinance_when_principal_hit <= a.loan

ThresholdBelowLoan(a) == a.refinance_when_principal_hit < a.loan

RefinanceCycleOk(a) == a.refinance_every_x_years > 0

(* Mutant: the comparison off by one. *)
AlmostEnoughRates(a) ==
    Len(a.interest_rates_100) + 1 >= a.refinance_every_x_years

EnoughRates(a) == Len(a.interest_rates_100) >= a.refinance_every_x_years

TopupCycleOk(a) == a.topup_every_x_month > 0

TopupAmountOk(a) == a.topup_amount > 0

(* The message of the first assertion that fails, "" when all pass. *)
ValidationError(a) ==
    IF a.interest_rates_100 = <<>> THEN MsgEmpty
    ELSE IF ~AllRatesPositive(a.interest_rates_100) THEN MsgRates
    ELSE IF ~ThresholdBelowLoan(a) THEN MsgThreshold
    ELSE IF a.refinance /\ ~RefinanceCycleOk(a) THEN MsgCycle
    ELSE IF a.refinance /\ ~EnoughRates(a) THEN MsgMoreRates
    ELSE IF a.topup /\ ~TopupCycleOk(a) THEN MsgTopupCycle
    ELSE IF a.topup /\ ~TopupAmountOk(a) THEN MsgTopupAmount
    ELSE ""

(* s * n : the list s repeated n times. *)
RECURSIVE Repeat(_, _)
Repeat(s, n) == IF n <= 0 THEN <<>> ELSE s \o Repeat(s, n - 1)

(* s[:n] for n >= 0. *)
Prefix(s, n) == SubSeq(s, 1, IF n < Len(s) THEN n ELSE Len(s))

(* Mutant: the whole list tiled, not its first refinance_every_x_years. *)
DerivedRatesWholeList(a) ==
    IF a.refinance
    THEN Prefix(Repeat(a.interest_rates_100,
                       (a.years \div a.refinance_every_x_years) + 1),
                a.years)
    ELSE a.interest_rates_100

(* The rate list the loop reads: tiled and cut to the term when refinancing. *)
DerivedRates(a) ==
    IF a.refinance
    THEN Prefix(Repeat(Prefix(a.interest_rates_100, a.refinance_every_x_years),
                       (a.years \div a.refinance_every_x_years) + 1),
                a.years)
    ELSE a.interest_rates_100

-----------------------------------------------------------------------------
(* The call *)

(* Entry of a call: nothing is computed yet and the locals of lines 35-50   *)
(* do not exist; rate_list is the list the parameter is bound to.          *)
FreshCall ==
    /\ pc = "call"
    /\ error = ""
    /\ rates = <<>>
    /\ hist = <<>>
    /\ months_left = 0
    /\ current_month = 0
    /\ principal_left = Zero
    /\ interest_rate_increase = Zero
    /\ i = 0
    /\ j = 0
    /\ interest_rate = Zero
    /\ interest_rate_monthly = Zero
    /\ required_monthly_payment = Zero
    /\ branch = 0
    /\ rate_list = args.interest_rates_100

Init ==
    /\ args \in Args
    /\ returned = {}
    /\ FreshCall
    /\ NoFrontEnd

(* Mutant: the list that was passed tiled and cut in place. *)
RebindInPlace(obj, new) == new

(* Lines 28-29: slicing and * build new lists and the local name is bound  *)
(* to them; the list object that was passed keeps what it held.            *)
Rebind(obj, new) == obj

(* Lines 18-50: the assertions, the tiling, the initial values of the loop. *)
Validate ==
    /\ pc = "call"
    /\ IF ValidationError(args) # ""
       THEN /\ pc' = "error"
            /\ error' = ValidationError(args)
            /\ UNCHANGED <<rates, months_left, principal_left, rate_list>>
       ELSE /\ pc' = "year"
            /\ rates' = DerivedRates(args)
            /\ rate_list' = Rebind(rate_list, DerivedRates(args))
            /\ months_left' = args.years * 12
            /\ principal_left' = F(args.loan)
            /\ UNCHANGED error
    /\ UNCHANGED <<args, hist, current_month, interest_rate_increase, i, j,
                   interest_rate, interest_rate_monthly,
                   required_monthly_payment, branch, returned>>
    /\ UNCHANGED frontEnd

(* Mutant: the first rate held beyond the list, not the last. *)
NominalRateFirstHeld(rs, y) == IF y <= Len(rs) - 1 THEN rs[y + 1] ELSE rs[1]

(* Lines 53-56: the nominal rate of loan-year y, the last one held. *)
NominalRate(rs, y) == IF y <= Len(rs) - 1 THEN rs[y + 1] ELSE rs[Len(rs)]

(* Lines 54/56: (rate + increase) / 100. *)
YearlyRate(rs, y, inc) == FDiv(FAdd(F(NominalRate(rs, y)), inc), F(100))

(* Line 62. *)
Nomi(rm, ml) == FPow(FAdd(F(1), rm), ml)

(* Line 63. *)
Denomi(rm, ml) == FSub(Nomi(rm, ml), F(1))

(* Line 64: the annuity payment for balance pl over ml months. *)
Payment(pl, rm, ml) ==
    FDiv(FMul(FMul(pl, rm), Nomi(rm, ml)), Denomi(rm, ml))

(* Lines 52-64: the head of the outer loop. *)
YearStart ==
    /\ pc = "year"
    /\ IF i >= args.years
       THEN /\ pc' = "done"
            /\ UNCHANGED <<error, interest_rate, interest_rate_monthly,
                           required_monthly_payment, j>>
       ELSE LET r  == YearlyRate(rates, i, interest_rate_increase)
                rm == FDiv(r, F(12))
            IN  /\ interest_rate' = r
                /\ interest_rate_monthly' = rm
                /\ IF Denomi(rm, months_left).m = 0
                   THEN /\ pc' = "error"
                        /\ error' = MsgZeroDivision
                        /\ UNCHANGED <<required_monthly_payment, j>>
                   ELSE /\ pc' = "month"
                        /\ required_monthly_payment' =
                               Payment(principal_left, rm, months_left)
                        /\ j' = 0
                        /\ UNCHANGED error
    /\ UNCHANGED <<args, rates, hist, months_left, current_month,
                   principal_left, interest_rate_increase, i, branch,
                   rate_list, returned>>
    /\ UNCHANGED frontEnd

(* Mutant: the period tested without the switch. *)
TopupDueWhateverSwitch(a, cm) ==
    a.topup_every_x_month > 0 /\ cm % a.topup_every_x_month = 0

(* Mutant: the month counted from the start of the loan-year. *)
TopupDueWithinYear(a, cm) ==
    a.topup /\ (((cm - 1) % 12) + 1) % a.topup_every_x_month = 0

(* Line 74: a top-up falls due in month cm. *)
TopupDue(a, cm) == a.topup /\ cm % a.topup_every_x_month = 0

(* Mutant: the additional payment left out of the month. *)
UnclampedNoAddition(a, pl, rm, req, cm) ==
    LET interest == FMul(rm, pl)
    IN  [interest  |-> interest,
         principal |-> FSub(req, interest),
         minimum   |-> FMax(FSub(F(a.minimum_monthly_payment), req), Zero),
         addition  |-> Zero,
         topup     |-> IF TopupDue(a, cm) THEN F(a.topup_amount) ELSE Zero,
         branch    |-> 0]

(* Mutant: the principal with the operands of line 69 swapped. *)
UnclampedSwapped(a, pl, rm, req, cm) ==
    LET interest == FMul(rm, pl)
    IN  [interest  |-> interest,
         principal |-> FSub(interest, req),
         minimum   |-> FMax(FSub(F(a.minimum_monthly_payment), req), Zero),
         addition  |-> F(a.additional_payment),
         topup     |-> IF TopupDue(a, cm) THEN F(a.topup_amount) ELSE Zero,
         branch    |-> 0]

(* Mutant: the minimum component without the floor at 0. *)
UnclampedNoFloor(a, pl, rm, req, cm) ==
    LET interest == FMul(rm, pl)
    IN  [interest  |-> interest,
         principal |-> FSub(req, interest),
         minimum   |-> FSub(F(a.minimum_monthly_payment), req),
         addition  |-> F(a.additional_payment),
         topup     |-> IF TopupDue(a, cm) THEN F(a.topup_amount) ELSE Zero,
         branch    |-> 0]

(* Mutant: the payment recomputed every month from the month's balance. *)
UnclampedRecomputed(a, pl, rm, req, cm) ==
    LET interest == FMul(rm, pl)
        monthly  == Payment(pl, rm, a.years * 12 - (cm - 1))
    IN  [interest  |-> interest,
         principal |-> FSub(monthly, interest),
         minimum   |-> FMax(FSub(F(a.minimum_monthly_payment), req), Zero),
         addition  |-> F(a.additional_payment),
         topup     |-> IF TopupDue(a, cm) THEN F(a.topup_amount) ELSE Zero,
         branch    |-> 0]

(* Lines 68-77: the components of month cm before the payoff clamp. *)
Unclamped(a, pl, rm, req, cm) ==
    LET interest == FMul(rm, pl)
    IN  [interest  |-> interest,
         principal |-> FSub(req, interest),
         minimum   |-> FMax(FSub(F(a.minimum_monthly_payment), req), Zero),
         addition  |-> F(a.additional_payment),
         topup     |-> IF TopupDue(a, cm) THEN F(a.topup_amount) ELSE Zero,
         branch    |-> 0]

(* Mutant: the second branch without lines 87-88. *)
ClampKeepsLater(u, pl) ==
    IF FGe(u.principal, pl)
    THEN [u EXCEPT !.principal = pl, !.minimum = Zero, !.addition = Zero,
                   !.topup = Zero, !.branch = 1]
    ELSE IF FGe(FAdd(u.principal, u.minimum), pl)
    THEN [u EXCEPT !.minimum = FSub(pl, u.principal), !.branch = 2]
    ELSE IF FGe(FAdd(FAdd(u.principal, u.minimum), u.addition), pl)
    THEN [u EXCEPT !.addition = FSub(pl, FAdd(u.principal, u.minimum)),
                   !.topup = Zero, !.branch = 3]
    ELSE IF FGe(FAdd(FAdd(FAdd(u.principal, u.minimum), u.addition), u.topup), pl)
    THEN [u EXCEPT !.topup = FSub(FSub(FSub(pl, u.principal), u.minimum),
                                  u.addition),
                   !.branch = 4]
    ELSE u

(* Lines 79-93: the payoff clamp, a cascade over the four components. *)
Clamp(u, pl) ==
    IF FGe(u.principal, pl)
    THEN [u EXCEPT !.principal = pl, !.minimum = Zero, !.addition = Zero,
                   !.topup = Zero, !.branch = 1]
    ELSE IF FGe(FAdd(u.principal, u.minimum), pl)
    THEN [u EXCEPT !.minimum = FSub(pl, u.principal), !.addition = Zero,
                   !.topup = Zero, !.branch = 2]
    ELSE IF FGe(FAdd(FAdd(u.principal, u.minimum), u.addition), pl)
    THEN [u EXCEPT !.addition = FSub(pl, FAdd(u.principal, u.minimum)),
                   !.topup = Zero, !.branch = 3]
    ELSE IF FGe(FAdd(FAdd(FAdd(u.principal, u.minimum), u.addition), u.topup), pl)
    THEN [u EXCEPT !.topup = FSub(FSub(FSub(pl, u.principal), u.minimum),
                                  u.addition),
                   !.branch = 4]
    ELSE u

(* Mutant: the interest taken off the balance too. *)
PaidWithInterest(c) ==
    FAdd(FAdd(FAdd(FAdd(c.principal, c.minimum), c.addition), c.topup),
         c.interest)

(* Line 104: what the month takes off the balance. *)
Paid(c) == FAdd(FAdd(FAdd(c.principal, c.minimum), c.addition), c.topup)

(* Mutant: the total of the engine variant without top-up. *)
TotalWithoutTopup(c) ==
    FAdd(FAdd(FAdd(c.principal, c.minimum), c.addition), c.interest)

(* Line 97. *)
Total(c) ==
    FAdd(FAdd(FAdd(FAdd(c.principal, c.minimum), c.addition), c.interest),
         c.topup)

(* Lines 95-106: the row appended for components c at balance pl. *)
Row(c, pl, r) ==
    [loan_start              |-> pl,
     interest_rate_yearly    |-> r,
     total                   |-> Total(c),
     principal               |-> c.principal,
     interest                |-> c.interest,
     minimum_monthly_payment |-> c.minimum,
     additional_payment      |-> c.addition,
     topup                   |-> c.topup,
     loan_end                |-> FSub(pl, Paid(c))]

(* Mutant: < where the code has <=. *)
PaidOffStrict(pl) == FLt(pl, Zero)

(* Lines 110 and 116: the balance test that breaks out of both loops. *)
PaidOff(pl) == FLe(pl, Zero)

(* Lines 66-111: one pass of the inner loop. *)
Month ==
    /\ pc = "month"
    /\ LET cm  == current_month + 1
           c   == Clamp(Unclamped(args, principal_left, interest_rate_monthly,
                                  required_monthly_payment, cm),
                        principal_left)
           row == Row(c, principal_left, interest_rate)
       IN  /\ current_month' = cm
           /\ hist' = Append(hist, row)
           /\ principal_left' = row.loan_end
           /\ branch' = c.branch
           /\ months_left' = months_left - 1
           /\ IF PaidOff(row.loan_end) \/ j = 11
              THEN pc' = "yearend" /\ j' = j
              ELSE pc' = "month" /\ j' = j + 1
    /\ UNCHANGED <<args, error, rates, interest_rate_increase, i,
                   interest_rate, interest_rate_monthly,
                   required_monthly_payment, rate_list, returned>>
    /\ UNCHANGED frontEnd

(* Mutant: the cycle left out of the test. *)
RefinanceTriggersEveryYear(a, y, pl) ==
    /\ a.refinance
    /\ FLe(pl, F(a.refinance_when_principal_hit))

(* Mutant: the balance compared the other way round. *)
RefinanceTriggersAbove(a, y, pl) ==
    /\ a.refinance
    /\ (y + 1) % a.refinance_every_x_years = 0
    /\ FGe(pl, F(a.refinance_when_principal_hit))

(* Line 113: the refinance event at the end of loan-year y. *)
RefinanceTriggers(a, y, pl) ==
    /\ a.refinance
    /\ (y + 1) % a.refinance_every_x_years = 0
    /\ FLe(pl, F(a.refinance_when_principal_hit))

(* Lines 113-117: the end of one pass of the outer loop. *)
YearEnd ==
    /\ pc = "yearend"
    /\ interest_rate_increase' =
           IF RefinanceTriggers(args, i, principal_left)
           THEN FAdd(interest_rate_increase,
                     F(args.refinance_interest_will_increase))
           ELSE interest_rate_increase
    /\ IF PaidOff(principal_left)
       THEN pc' = "done" /\ i' = i
       ELSE pc' = "year" /\ i' = i + 1
    /\ UNCHANGED <<args, error, rates, hist, months_left, current_month,
                   principal_left, j, interest_rate, interest_rate_monthly,
                   required_monthly_payment, branch, rate_list, returned>>
    /\ UNCHANGED frontEnd

Next == Validate \/ YearStart \/ Month \/ YearEnd

Spec == Init /\ [][Next]_vars

-----------------------------------------------------------------------------
(* Calls whose refinance event lowers the rate *)

(* refinance_interest_will_increase is not validated (lines 18-33): with a *)
(* negative value the rate of a later loan-year comes down to exactly 0.   *)
ZeroRateArgs ==
    [loan : {1000},
     years : Years,
     interest_rates_100 : {<<6>>, <<12>>},
     minimum_monthly_payment : {0},
     additional_payment : {0, 70},
     refinance : {TRUE},
     refinance_every_x_years : {1},
     refinance_when_principal_hit : {0, 600},
     refinance_interest_will_increase : {-6, 1},
     topup : {FALSE},
     topup_every_x_month : {12},
     topup_amount : {50}]

ZeroRateInit ==
    /\ args \in ZeroRateArgs
    /\ returned = {}
    /\ FreshCall
    /\ NoFrontEnd

ZeroRateSpec == ZeroRateInit /\ [][Next]_vars

-----------------------------------------------------------------------------
(* A caller that calls the engine again and again *)

CallArgs ==
    [loan : {1200},
     years : Years,
     interest_rates_100 : {<<6>>, <<24, 12>>},
     minimum_monthly_payment : {0, 70},
     additional_payment : {0, 1, 70},
     refinance : BOOLEAN,
     refinance_every_x_years : {1},
     refinance_when_principal_hit : {400},
     refinance_interest_will_increase : {50},
     topup : BOOLEAN,
     topup_every_x_month : {7},
     topup_amount : {200}]

(* The arguments of the next call: another additional payment, the rest    *)
(* as before.                                                              *)
NextCalls(a) == {[a EXCEPT !.additional_payment = x] : x \in {0, 1, 70}}

(* The caller keeps the outcome and calls again, passing the same list     *)
(* object for the rates with whatever it holds by now.                     *)
CallAgain ==
    /\ pc \in {"done", "error"}
    /\ returned' = returned \cup {[args |-> args, hist |-> hist, error |-> error]}
    /\ \E a \in NextCalls(args) :
           args' = [a EXCEPT !.interest_rates_100 = rate_list]
    /\ pc' = "call"
    /\ error' = ""
    /\ rates' = <<>>
    /\ hist' = <<>>
    /\ months_left' = 0
    /\ current_month' = 0
    /\ principal_left' = Zero
    /\ interest_rate_increase' = Zero
    /\ i' = 0
    /\ j' = 0
    /\ interest_rate' = Zero
    /\ interest_rate_monthly' = Zero
    /\ required_monthly_payment' = Zero
    /\ branch' = 0
    /\ UNCHANGED rate_list
    /\ UNCHANGED frontEnd

CallsInit ==
    /\ args \in CallArgs
    /\ returned = {}
    /\ FreshCall
    /\ NoFrontEnd

CallsNext == Next \/ CallAgain

CallsSpec == CallsInit /\ [][CallsNext]_vars

-----------------------------------------------------------------------------
(* Calls over longer terms, for the rate of each loan-year *)

RateArgs ==
    [loan : {1000},
     years : 1..(MaxYears + 2),
     interest_rates_100 : {<<12>>, <<24, 12>>, <<6, 12, 24>>},
     minimum_monthly_payment : {0},
     additional_payment : {0, 70},
     refinance : BOOLEAN,
     refinance_every_x_years : {1, 2},
     refinance_when_principal_hit : {300, 600},
     refinance_interest_will_increase : {0, 1},
     topup : {FALSE},
     topup_every_x_month : {12},
     topup_amount : {50}]

RatesInit ==
    /\ args \in RateArgs
    /\ returned = {}
    /\ FreshCall
    /\ NoFrontEnd

RatesSpec == RatesInit /\ [][Next]_vars

-----------------------------------------------------------------------------
(* The engine variant of src/mortgage_calculator/logic.py, called with the *)
(* int parameters MortgageState holds. Its parameters are local names: the *)
(* loop rebinds minimum_monthly_payment and additional_payment, so args    *)
(* holds what the names are bound to, not what the caller passed.          *)

(* int(x): the float cut towards 0. *)
IntOf(x) ==
    IF x.e >= 0
    THEN x.m * Pow2(x.e)
    ELSE Sgn(x.m) * (Abs(x.m) \div Pow2(0 - x.e))

(* Variant lines 15-21: the assertions, in order; "" if all pass. *)
VariantValidationError(a) ==
    IF a.interest_rates_100 = <<>> THEN MsgEmpty
    ELSE IF ~AllRatesPositive(a.interest_rates_100) THEN MsgRates
    ELSE IF a.refinance /\ ~RefinanceCycleOk(a) THEN MsgCycle
    ELSE IF a.refinance /\ ~EnoughRates(a) THEN MsgMoreRates
    ELSE ""

(* Variant lines 15-40. *)
VariantValidate ==
    /\ pc = "call"
    /\ IF VariantValidationError(args) # ""
       THEN /\ pc' = "error"
            /\ error' = VariantValidationError(args)
            /\ UNCHANGED <<rates, months_left, principal_left>>
       ELSE /\ pc' = "year"
            /\ rates' = DerivedRates(args)
            /\ months_left' = args.years * 12
            /\ principal_left' = args.loan
            /\ UNCHANGED error
    /\ UNCHANGED <<args, hist, current_month, interest_rate_increase, i, j,
                   interest_rate, interest_rate_monthly,
                   required_monthly_payment, branch, rate_list, returned>>
    /\ UNCHANGED frontEnd

(* Variant lines 42-54: the head of the outer loop. *)
VariantYearStart ==
    /\ pc = "year"
    /\ IF i >= args.years
       THEN /\ pc' = "done"
            /\ UNCHANGED <<error, interest_rate, interest_rate_monthly,
                           required_monthly_payment, j>>
       ELSE LET r  == YearlyRate(rates, i, interest_rate_increase)
                rm == FDiv(r, F(12))
            IN  /\ interest_rate' = r
                /\ interest_rate_monthly' = rm
                /\ IF Denomi(rm, months_left).m = 0
                   THEN /\ pc' = "error"
                        /\ error' = MsgZeroDivision
                        /\ UNCHANGED <<required_monthly_payment, j>>
                   ELSE /\ pc' = "month"
                        /\ required_monthly_payment' =
                               Payment(F(principal_left), rm, months_left)
                        /\ j' = 0
                        /\ UNCHANGED error
    /\ UNCHANGED <<args, rates, hist, months_left, current_month,
                   principal_left, interest_rate_increase, i, branch,
                   rate_list, returned>>
    /\ UNCHANGED frontEnd

(* Variant lines 60-76: the total of the month and what the names          *)
(* minimum_monthly_payment and additional_payment are bound to after it.   *)
VariantPayment(pl, req, mn, ad) ==
    IF FGe(req, F(pl))
    THEN [total |-> pl, minimum |-> 0, addition |-> 0, branch |-> 1]
    ELSE IF mn >= pl
    THEN [total |-> pl, minimum |-> pl, addition |-> 0, branch |-> 2]
    ELSE LET total == IF FGt(F(mn), req) THEN mn ELSE IntOf(req)
         IN  IF total + ad >= pl
             THEN [total |-> total, minimum |-> mn, addition |-> pl - total,
                   branch |-> 3]
             ELSE [total |-> total + ad, minimum |-> mn, addition |-> ad,
                   branch |-> 0]

(* Variant lines 80-90: the row appended; there is no top-up column. *)
VariantRow(p, interest, pl, r) ==
    [loan_start              |-> pl,
     interest_rate_yearly    |-> r,
     total                   |-> p.total,
     principal               |-> p.total - interest,
     interest                |-> interest,
     minimum_monthly_payment |-> p.minimum,
     additional_payment      |-> p.addition,
     loan_end                |-> pl - (p.total - interest)]

(* Variant lines 56-94: one pass of the inner loop. *)
VariantMonth ==
    /\ pc = "month"
    /\ LET interest == IntOf(FMul(interest_rate_monthly, F(principal_left)))
           p   == VariantPayment(principal_left, required_monthly_payment,
                                 args.minimum_monthly_payment,
                                 args.additional_payment)
           row == VariantRow(p, interest, principal_left, interest_rate)
       IN  /\ args' = [args EXCEPT !.minimum_monthly_payment = p.minimum,
                                   !.additional_payment = p.addition]
           /\ hist' = Append(hist, row)
           /\ principal_left' = row.loan_end
           /\ branch' = p.branch
           /\ months_left' = months_left - 1
           /\ IF row.loan_end <= 0 \/ j = 11
              THEN pc' = "yearend" /\ j' = j
              ELSE pc' = "month" /\ j' = j + 1
    /\ UNCHANGED <<error, rates, current_month, interest_rate_increase, i,
                   interest_rate, interest_rate_monthly,
                   required_monthly_payment, rate_list, returned>>
    /\ UNCHANGED frontEnd

(* Variant lines 96-100: the end of one pass of the outer loop. *)
VariantYearEnd ==
    /\ pc = "yearend"
    /\ interest_rate_increase' =
           IF /\ args.refinance
              /\ (i + 1) % args.refinance_every_x_years = 0
              /\ principal_left <= args.refinance_when_principal_hit
           THEN FAdd(interest_rate_increase,
                     F(args.refinance_interest_will_increase))
           ELSE interest_rate_increase
    /\ IF principal_left <= 0
       THEN pc' = "done" /\ i' = i
       ELSE pc' = "year" /\ i' = i + 1
    /\ UNCHANGED <<args, error, rates, hist, months_left, current_month,
                   principal_left, j, interest_rate, interest_rate_monthly,
                   required_monthly_payment, branch, rate_list, returned>>
    /\ UNCHANGED frontEnd

VariantNext ==
    VariantValidate \/ VariantYearStart \/ VariantMonth \/ VariantYearEnd

-----------------------------------------------------------------------------
(* MortgageState (src/mortgage_calculator/state.py) *)

(* The text a form field sends, and the int that int() makes of it; a text *)
(* outside the table raises ValueError.                                    *)
IntOfText ==
    ("0" :> 0) @@ ("1" :> 1) @@ ("2" :> 2) @@ ("3" :> 3) @@ ("70" :> 70)
    @@ ("100" :> 100) @@ ("600" :> 600) @@ ("1000" :> 1000)

(* `int(value) if value else default` does not raise. *)
Parses(text) == text = "" \/ text \in DOMAIN IntOfText

(* `int(value) if value else default`. *)
Parsed(text, default) == IF text = "" THEN default ELSE IntOfText[text]

(* The texts the form fields send. *)
LoanTexts == {"600", "1,000"}

YearTexts == {"", "2", "two"} \cup {t \in DOMAIN IntOfText : IntOfText[t] = MaxYears}

MinimumTexts == {"", "100"}

AdditionalTexts == {"", "70"}

CycleTexts == {"0", "1"}

ThresholdTexts == {"600"}

IncreaseTexts == {"1"}

(* Names of scenarios; a blank name saves nothing. *)
ScenarioNames == {"a", " "}

(* name.strip() is empty. *)
Blank(name) == name \in {"", " "}

(* Rates the rate handlers are called with. *)
NewRates == {0, 6, 12}

(* The longest rate list the handlers are driven to. *)
MaxRates == 2

(* The list objects: the one MortgageState starts with and the copy of a   *)
(* saved scenario.                                                         *)
Objects == 1..2

(* The parameters calculate passes to the engine (lines 126-136); the list *)
(* is passed by reference and the engine only reads it.                    *)
ParametersOf(s, h) ==
    [loan                             |-> s.loan_amount,
     years                            |-> s.years,
     interest_rates_100               |-> h[s.interest_rates],
     minimum_monthly_payment          |-> s.minimum_monthly_payment,
     additional_payment               |-> s.additional_payment,
     refinance                        |-> s.refinance,
     refinance_every_x_years          |-> s.refinance_every_x_years,
     refinance_when_principal_hit     |-> s.refinance_when_principal_hit,
     refinance_interest_will_increase |-> s.refinance_interest_will_increase]

(* The variables a handler of MortgageState writes when it calculates. *)
calculation == <<self, args, pc, error, rates, hist, months_left,
                 current_month, principal_left, interest_rate_increase, i, j,
                 interest_rate, interest_rate_monthly,
                 required_monthly_payment, branch>>

(* What no handler of MortgageState touches. *)
outsideState == <<rate_list, returned, session, page>>

(* Lines 120-136: calculate on the fields s and the lists h, up to the     *)
(* entry of the engine.                                                    *)
BeginCalculate(s, h) ==
    /\ self' = [s EXCEPT !.loading = TRUE, !.error_message = ""]
    /\ args' = ParametersOf(s, h)
    /\ pc' = "call"
    /\ error' = ""
    /\ rates' = <<>>
    /\ hist' = <<>>
    /\ months_left' = 0
    /\ current_month' = 0
    /\ principal_left' = 0
    /\ interest_rate_increase' = Zero
    /\ i' = 0
    /\ j' = 0
    /\ interest_rate' = Zero
    /\ interest_rate_monthly' = Zero
    /\ required_monthly_payment' = Zero
    /\ branch' = 0

(* Mutant: the result cleared when the engine raises. *)
OutcomeClearsResult(s, raised, message, schedule) ==
    IF raised
    THEN [s EXCEPT !.error_message = "Calculation error: " \o message,
                   !.calculation_result = <<>>,
                   !.loading = FALSE]
    ELSE [s EXCEPT !.calculation_result = schedule, !.loading = FALSE]

(* Lines 126-140: the assignment of the result, the except and the finally *)
(* clause.                                                                 *)
Outcome(s, raised, message, schedule) ==
    IF raised
    THEN [s EXCEPT !.error_message = "Calculation error: " \o message,
                   !.loading = FALSE]
    ELSE [s EXCEPT !.calculation_result = schedule, !.loading = FALSE]

(* Lines 120-123: calculate, called as a handler of its own. *)
calculate ==
    /\ pc = "idle"
    /\ BeginCalculate(self, heap)
    /\ UNCHANGED <<heap, outsideState>>

(* Lines 125-140: the engine has returned or raised. *)
CalculateEnd ==
    /\ pc \in {"done", "error"}
    /\ self' = Outcome(self, pc = "error", error, hist)
    /\ pc' = "idle"
    /\ UNCHANGED <<args, error, rates, hist, months_left, current_month,
                   principal_left, interest_rate_increase, i, j,
                   interest_rate, interest_rate_monthly,
                   required_monthly_payment, branch, heap, outsideState>>

(* Lines 64-70. *)
set_loan_amount_str ==
    /\ pc = "idle"
    /\ \E text \in LoanTexts :
           IF Parses(text)
           THEN BeginCalculate([self EXCEPT !.loan_amount = Parsed(text, 0)],
                               heap)
           ELSE UNCHANGED calculation
    /\ UNCHANGED <<heap, outsideState>>

(* Lines 72-78. *)
set_years_str ==
    /\ pc = "idle"
    /\ \E text \in YearTexts :
           IF Parses(text)
           THEN BeginCalculate([self EXCEPT !.years = Parsed(text, 1)], heap)
           ELSE UNCHANGED calculation
    /\ UNCHANGED <<heap, outsideState>>

(* Lines 80-86. *)
set_minimum_monthly_payment_str ==
    /\ pc = "idle"
    /\ \E text \in MinimumTexts :
           IF Parses(text)
           THEN BeginCalculate(
                    [self EXCEPT !.minimum_monthly_payment = Parsed(text, 0)],
                    heap)
           ELSE UNCHANGED calculation
    /\ UNCHANGED <<heap, outsideState>>

(* Lines 88-94. *)
set_additional_payment_str ==
    /\ pc = "idle"
    /\ \E text \in AdditionalTexts :
           IF Parses(text)
           THEN BeginCalculate(
                    [self EXCEPT !.additional_payment = Parsed(text, 0)],
                    heap)
           ELSE UNCHANGED calculation
    /\ UNCHANGED <<heap, outsideState>>

(* components/inputs.py line 102: the setter of the refinance switch; it   *)
(* does not calculate.                                                     *)
set_refinance ==
    /\ pc = "idle"
    /\ \E value \in BOOLEAN : self' = [self EXCEPT !.refinance = value]
    /\ UNCHANGED <<args, pc, error, rates, hist, months_left, current_month,
                   principal_left, interest_rate_increase, i, j,
                   interest_rate, interest_rate_monthly,
                   required_monthly_payment, branch, heap, outsideState>>

(* Lines 96-102. *)
set_refinance_every_x_years_str ==
    /\ pc = "idle"
    /\ \E text \in CycleTexts :
           IF Parses(text)
           THEN BeginCalculate(
                    [self EXCEPT !.refinance_every_x_years = Parsed(text, 3)],
                    heap)
           ELSE UNCHANGED calculation
    /\ UNCHANGED <<heap, outsideState>>

(* Lines 104-110. *)
set_refinance_when_principal_hit_str ==
    /\ pc = "idle"
    /\ \E text \in ThresholdTexts :
           IF Parses(text)
           THEN BeginCalculate(
                    [self EXCEPT !.refinance_when_principal_hit =
                                     Parsed(text, DefaultThreshold)],
                    heap)
           ELSE UNCHANGED calculation
    /\ UNCHANGED <<heap, outsideState>>

(* Lines 112-118: float() of the texts used here is the int of the table. *)
set_refinance_interest_will_increase_str ==
    /\ pc = "idle"
    /\ \E text \in IncreaseTexts :
           IF Parses(text)
           THEN BeginCalculate(
                    [self EXCEPT !.refinance_interest_will_increase =
                                     Parsed(text, 1)],
                    heap)
           ELSE UNCHANGED calculation
    /\ UNCHANGED <<heap, outsideState>>

(* Lines 142-146: append changes the list object in place. *)
add_interest_rate ==
    /\ pc = "idle"
    /\ Len(heap[self.interest_rates]) < MaxRates
    /\ \E rate \in NewRates :
           IF rate > 0
           THEN LET h == [heap EXCEPT ![self.interest_rates] = Append(@, rate)]
                IN  heap' = h /\ BeginCalculate(self, h)
           ELSE UNCHANGED <<heap, calculation>>
    /\ UNCHANGED outsideState

(* list.pop(index), 0-based. *)
Pop(s, index) ==
    [k \in 1..(Len(s) - 1) |-> IF k <= index THEN s[k] ELSE s[k + 1]]

(* Lines 148-152. *)
remove_interest_rate ==
    /\ pc = "idle"
    /\ \E index \in 0..MaxRates :
           LET list == heap[self.interest_rates]
           IN  IF 0 <= index /\ index < Len(list) /\ Len(list) > 1
               THEN LET h == [heap EXCEPT
                                 ![self.interest_rates] = Pop(list, index)]
                    IN  heap' = h /\ BeginCalculate(self, h)
               ELSE UNCHANGED <<heap, calculation>>
    /\ UNCHANGED outsideState

(* Lines 154-158: the item is assigned in the list object itself. *)
update_interest_rate ==
    /\ pc = "idle"
    /\ \E index \in 0..MaxRates, rate \in NewRates :
           LET list == heap[self.interest_rates]
           IN  IF 0 <= index /\ index < Len(list) /\ rate > 0
               THEN LET h == [heap EXCEPT
                                 ![self.interest_rates][index + 1] = rate]
                    IN  heap' = h /\ BeginCalculate(self, h)
               ELSE UNCHANGED <<heap, calculation>>
    /\ UNCHANGED outsideState

(* The list objects the fields s refer to. *)
Referenced(s) ==
    {s.interest_rates}
        \cup {s.scenarios[n].interest_rates : n \in DOMAIN s.scenarios}

(* The lists h with every object that s no longer refers to given back. *)
Collected(s, h) == [o \in Objects |-> IF o \in Referenced(s) THEN h[o] ELSE <<>>]

(* The parameters save_scenario stores (lines 163-173). *)
ScenarioOf(s, list) ==
    [loan_amount                      |-> s.loan_amount,
     years                            |-> s.years,
     interest_rates                   |-> list,
     minimum_monthly_payment          |-> s.minimum_monthly_payment,
     additional_payment               |-> s.additional_payment,
     refinance                        |-> s.refinance,
     refinance_every_x_years          |-> s.refinance_every_x_years,
     refinance_when_principal_hit     |-> s.refinance_when_principal_hit,
     refinance_interest_will_increase |-> s.refinance_interest_will_increase]

(* Lines 160-173: the scenario holds a copy of the rate list. *)
save_scenario ==
    /\ pc = "idle"
    /\ \E name \in ScenarioNames :
           IF ~Blank(name)
           THEN \E copy \in Objects :
                   /\ copy # self.interest_rates
                   /\ LET s == [self EXCEPT !.scenarios =
                                   (name :> ScenarioOf(self, copy))
                                   @@ self.scenarios]
                      IN  /\ self' = s
                          /\ heap' = Collected(s,
                                 [heap EXCEPT ![copy] =
                                     heap[self.interest_rates]])
           ELSE UNCHANGED <<self, heap>>
    /\ UNCHANGED <<args, pc, error, rates, hist, months_left, current_month,
                   principal_left, interest_rate_increase, i, j,
                   interest_rate, interest_rate_monthly,
                   required_monthly_payment, branch, outsideState>>

(* Lines 175-188: line 181 binds the field to the list object of the       *)
(* scenario.                                                               *)
load_scenario ==
    /\ pc = "idle"
    /\ \E name \in ScenarioNames :
           IF name \in DOMAIN self.scenarios
           THEN LET scenario == self.scenarios[name]
                    s == [self EXCEPT
                                   !.loan_amount = scenario.loan_amount,
                                   !.years = scenario.years,
                                   !.interest_rates = scenario.interest_rates,
                                   !.minimum_monthly_payment =
                                       scenario.minimum_monthly_payment,
                                   !.additional_payment =
                                       scenario.additional_payment,
                                   !.refinance = scenario.refinance,
                                   !.refinance_every_x_years =
                                       scenario.refinance_every_x_years,
                                   !.refinance_when_principal_hit =
                                       scenario.refinance_when_principal_hit,
                                   !.refinance_interest_will_increase =
                                       scenario.refinance_interest_will_increase]
                    h == Collected(s, heap)
                IN  heap' = h /\ BeginCalculate(s, h)
           ELSE UNCHANGED <<heap, calculation>>
    /\ UNCHANGED outsideState

(* Lines 190-195. *)
delete_scenario ==
    /\ pc = "idle"
    /\ \E name \in ScenarioNames :
           IF name \in DOMAIN self.scenarios
           THEN LET s == [self EXCEPT !.scenarios =
                             [n \in DOMAIN self.scenarios \ {name}
                                 |-> self.scenarios[n]]]
                IN  self' = s /\ heap' = Collected(s, heap)
           ELSE UNCHANGED <<self, heap>>
    /\ UNCHANGED <<args, pc, error, rates, hist, months_left, current_month,
                   principal_left, interest_rate_increase, i, j,
                   interest_rate, interest_rate_monthly,
                   required_monthly_payment, branch, outsideState>>

(* MortgageState with small values in its fields (state.py lines 7-29 give *)
(* the defaults of a full-size loan); the first list object holds the      *)
(* rates.                                                                  *)
InitialState ==
    [loan_amount                      |-> 1000,
     years                            |-> 1,
     interest_rates                   |-> 1,
     minimum_monthly_payment          |-> 0,
     additional_payment               |-> 0,
     refinance                        |-> FALSE,
     refinance_every_x_years          |-> 1,
     refinance_when_principal_hit     |-> 600,
     refinance_interest_will_increase |-> 1,
     calculation_result               |-> <<>>,
     scenarios                        |-> <<>>,
     loading                          |-> FALSE,
     error_message                    |-> ""]

(* The engine has not been entered: its locals hold nothing. *)
EngineAtRest ==
    /\ args = ParametersOf(self, heap)
    /\ pc = "idle"
    /\ error = ""
    /\ rates = <<>>
    /\ hist = <<>>
    /\ months_left = 0
    /\ current_month = 0
    /\ principal_left = 0
    /\ interest_rate_increase = Zero
    /\ i = 0
    /\ j = 0
    /\ interest_rate = Zero
    /\ interest_rate_monthly = Zero
    /\ required_monthly_payment = Zero
    /\ branch = 0
    /\ rate_list = <<>>
    /\ returned = {}
    /\ session = "none"
    /\ page = "none"

(* The form of the Reflex app: the setters and calculate. *)
StateInit ==
    /\ self = InitialState
    /\ heap = [o \in Objects |-> IF o = 1 THEN <<12>> ELSE <<>>]
    /\ EngineAtRest

StateNext ==
    \/ set_loan_amount_str
    \/ set_years_str
    \/ set_minimum_monthly_payment_str
    \/ set_additional_payment_str
    \/ set_refinance
    \/ set_refinance_every_x_years_str
    \/ set_refinance_when_principal_hit_str
    \/ set_refinance_interest_will_increase_str
    \/ calculate
    \/ VariantNext
    \/ CalculateEnd

StateSpec == StateInit /\ [][StateNext]_vars

(* The rate list and the scenarios of the Reflex app. *)
ScenarioInit ==
    /\ self = InitialState
    /\ heap \in {[o \in Objects |-> IF o = 1 THEN list ELSE <<>>] :
                    list \in {<<12>>, <<6, 12>>}}
    /\ EngineAtRest

ScenarioNext ==
    \/ add_interest_rate
    \/ remove_interest_rate
    \/ update_interest_rate
    \/ save_scenario
    \/ load_scenario
    \/ delete_scenario
    \/ VariantNext
    \/ CalculateEnd

ScenarioSpec == ScenarioInit /\ [][ScenarioNext]_vars

-----------------------------------------------------------------------------
(* The Streamlit app of src/app.py: one scenario and the Calculate button *)
(* The keys of the mapping the engine returns (src/logic.py lines 35-45), *)
(* which are the columns of pd.DataFrame(result).                          *)
HistKeys ==
    {"loan_start", "interest_rate_yearly", "total", "principal", "interest",
     "minimum_monthly_payment", "additional_payment", "topup", "loan_end"}

(* The columns the Calculate loop reads, in the order it reads them        *)
(* (app.py lines 134-139): 'year' and 'month' only of a frame with rows.   *)
ColumnsRead(rows) ==
    IF rows # <<>>
    THEN <<"total", "interest", "year", "month">>
    ELSE <<"total", "interest">>

(* df[name] raises KeyError(name) for a name that is no column; str() of   *)
(* the exception is the name in quotes. "" when every read succeeds.       *)
KeyError(rows) ==
    LET read    == ColumnsRead(rows)
        missing == {k \in DOMAIN read : read[k] \notin HistKeys}
    IN  IF missing = {}
        THEN ""
        ELSE LET first == CHOOSE k \in missing : \A m \in missing : k <= m
             IN  "'" \o read[first] \o "'"

(* The loan amounts typed in the shared "Loan Amount" box (line 93): a     *)
(* small loan and the default of 4,300,000.                                *)
AppLoans == {1000, 4300000}

(* The lists parsed from the "Interest Rates" text (lines 28, 61-65); text *)
(* that does not parse gives the empty list.                               *)
AppRateLists == {<<>>, <<12>>, <<6, 12>>}

(* What create_scenario_inputs returns (lines 12-67): the refinance and    *)
(* top-up numbers are the widgets' when the box is ticked and the fixed    *)
(* values of lines 46-48 and 56-57 when it is not.                         *)
ScenarioInputs ==
    {[loan                             |-> l,
      years                            |-> y,
      interest_rates_100               |-> rs,
      minimum_monthly_payment          |-> 0,
      additional_payment               |-> ad,
      refinance                        |-> rf,
      refinance_every_x_years          |-> IF rf THEN 1 ELSE 3,
      refinance_when_principal_hit     |-> IF rf THEN 600 ELSE DefaultThreshold,
      refinance_interest_will_increase |-> 1,
      topup                            |-> FALSE,
      topup_every_x_month              |-> 12,
      topup_amount                     |-> 50000] :
        l \in AppLoans, y \in 1..MaxYears, rs \in AppRateLists,
        ad \in {0, 70}, rf \in BOOLEAN}

(* The page before Calculate is pressed: no results row, no error. *)
EmptyPage == [results_data |-> <<>>, errors |-> <<>>]

AppInit ==
    /\ args \in ScenarioInputs
    /\ pc = "idle"
    /\ error = ""
    /\ rates = <<>>
    /\ hist = <<>>
    /\ months_left = 0
    /\ current_month = 0
    /\ principal_left = Zero
    /\ interest_rate_increase = Zero
    /\ i = 0
    /\ j = 0
    /\ interest_rate = Zero
    /\ interest_rate_monthly = Zero
    /\ required_monthly_payment = Zero
    /\ branch = 0
    /\ rate_list = <<>>
    /\ returned = {}
    /\ self = "none"
    /\ heap = <<>>
    /\ session = "none"
    /\ page = EmptyPage

(* Lines 125-131: Calculate is pressed; a scenario whose rate list is      *)
(* empty is passed over, any other is handed to the engine.                *)
CalculateButton ==
    /\ pc = "idle"
    /\ IF args.interest_rates_100 # <<>>
       THEN /\ pc' = "call"
            /\ rate_list' = args.interest_rates_100
       ELSE /\ pc' = "shown"
            /\ UNCHANGED rate_list
    /\ UNCHANGED <<args, error, rates, hist, months_left, current_month,
                   principal_left, interest_rate_increase, i, j,
                   interest_rate, interest_rate_monthly,
                   required_monthly_payment, branch, returned, frontEnd>>

(* Lines 132-166: the summary of the scenario. An exception, the engine's  *)
(* or the KeyError of a column read, is reported by st.error (line 166)    *)
(* and no row is appended; otherwise line 154 appends the row.             *)
ScenarioSummary ==
    /\ pc \in {"done", "error"}
    /\ pc' = "shown"
    /\ LET raised == IF pc = "error" THEN error ELSE KeyError(hist)
       IN  page' = IF raised # ""
                   THEN [page EXCEPT !.errors =
                            Append(@, "Error in Scenario 1: " \o raised)]
                   ELSE [page EXCEPT !.results_data =
                            Append(@, [Scenario |-> 1, rows |-> Len(hist)])]
    /\ UNCHANGED <<args, error, rates, hist, months_left, current_month,
                   principal_left, interest_rate_increase, i, j,
                   interest_rate, interest_rate_monthly,
                   required_monthly_payment, branch, rate_list, returned,
                   self, heap, session>>

AppNext ==
    \/ CalculateButton
    \/ Next
    \/ ScenarioSummary

AppSpec == AppInit /\ [][AppNext]_vars

-----------------------------------------------------------------------------
(* The Streamlit dashboard: render_sidebar and render_dashboard *)
(* Python's None; a value that may be None is the empty tuple or the      *)
(* tuple of the one value.                                                 *)
None == <<>>

(* The loan amounts of the "Loan Amount" box (inputs.py lines 41-49). *)
DashboardLoans == {1000000, 4300000}

(* The values of a rate box and of the "New Rate" box (lines 93-101,       *)
(* 122-131), which admit nothing below 0.1.                                *)
DashboardRates == {6, 12}

(* The values of "Refinance Every (Years)" (lines 184-190). *)
DashboardCycles == {1, 3}

(* helpers.py lines 9-23 and the defaults the widgets and                  *)
(* get_current_parameters fall back on (settings.py lines 10-20), with a   *)
(* short term and a short rate list; interest_rates names the list object. *)
InitialSession ==
    [loan_amount         |-> 4300000,
     loan_years          |-> 1,
     interest_rates      |-> 1,
     min_payment         |-> 0,
     additional_payment  |-> 0,
     refinance           |-> FALSE,
     refinance_cycle     |-> 3,
     refinance_threshold |-> DefaultThreshold,
     rate_increase       |-> 1,
     calculation_result  |-> None,
     last_params         |-> None]

(* helpers.py lines 26-38: the dict of the current parameters; the value   *)
(* of 'interest_rates_100' is the session's list object itself.            *)
get_current_parameters(s) ==
    [loan                             |-> s.loan_amount,
     years                            |-> s.loan_years,
     interest_rates_100               |-> s.interest_rates,
     minimum_monthly_payment          |-> s.min_payment,
     additional_payment               |-> s.additional_payment,
     refinance                        |-> s.refinance,
     refinance_every_x_years          |-> s.refinance_cycle,
     refinance_when_principal_hit     |-> s.refinance_threshold,
     refinance_interest_will_increase |-> s.rate_increase]

(* helpers.py lines 94-129: the errors found, in order; none when the      *)
(* parameters are accepted.                                                *)
validate_inputs(params, h) ==
    LET list == h[params.interest_rates_100]
        When(failed, message) == IF failed THEN <<message>> ELSE <<>>
    IN  When(params.loan <= 0, "Loan amount must be greater than 0")
        \o When(params.years <= 0, "Loan term must be greater than 0")
        \o When(list = <<>>, "At least one interest rate must be provided")
        \o When(\E k \in DOMAIN list : list[k] <= 0,
                "All interest rates must be greater than 0")
        \o When(params.minimum_monthly_payment < 0,
                "Minimum monthly payment cannot be negative")
        \o When(params.additional_payment < 0,
                "Additional payment cannot be negative")
        \o When(params.refinance /\ params.refinance_every_x_years <= 0,
                "Refinance cycle must be greater than 0")
        \o When(params.refinance /\ params.refinance_when_principal_hit <= 0,
                "Refinance threshold must be greater than 0")
        \o When(params.refinance
                    /\ params.refinance_interest_will_increase < 0,
                "Rate increase cannot be negative")

(* helpers.py lines 132-144: the two dicts compared key by key; the lists  *)
(* under 'interest_rates_100' are compared as they are now.                *)
params_changed(params1, params2, h) ==
    \/ params2 = None
    \/ \E key \in DOMAIN params1 :
          IF key = "interest_rates_100"
          THEN h[params1[key]] # h[params2[1][key]]
          ELSE params1[key] # params2[1][key]

(* outputs.py line 29: the engine called with the dict as its keyword    *)
(* arguments; the top-up parameters take the defaults of src/logic.py   *)
(* lines 13-15.                                                           *)
EngineArguments(params, h) ==
    [loan                             |-> params.loan,
     years                            |-> params.years,
     interest_rates_100               |-> h[params.interest_rates_100],
     minimum_monthly_payment          |-> params.minimum_monthly_payment,
     additional_payment               |-> params.additional_payment,
     refinance                        |-> params.refinance,
     refinance_every_x_years          |-> params.refinance_every_x_years,
     refinance_when_principal_hit     |-> params.refinance_when_principal_hit,
     refinance_interest_will_increase |->
         params.refinance_interest_will_increase,
     topup                            |-> FALSE,
     topup_every_x_month              |-> 12,
     topup_amount                     |-> 50000]

(* outputs.py lines 35-38 and below: the info box when nothing was ever    *)
(* calculated, else the cached result.                                     *)
Display(s) ==
    IF s.calculation_result = None
    THEN [shows |-> "info", message |-> <<>>, result |-> None]
    ELSE [shows |-> "results", message |-> <<>>,
          result |-> s.calculation_result]

(* What a script run leaves alone unless it enters the engine. *)
engineLocals == <<error, rates, hist, months_left, current_month,
                  principal_left, interest_rate_increase, i, j, interest_rate,
                  interest_rate_monthly, required_monthly_payment, branch>>

(* outputs.py lines 11-29: render_dashboard on the session s and the lists *)
(* h that render_sidebar left, up to the entry of the engine.              *)
render_dashboard(s, h) ==
    LET params == get_current_parameters(s)
        errors == validate_inputs(params, h)
    IN  /\ session' = s
        /\ heap' = h
        /\ IF errors # <<>>
           THEN /\ page' = [shows |-> "invalid inputs", message |-> errors,
                            result |-> None]
                /\ UNCHANGED <<pc, args, rate_list>>
           ELSE IF params_changed(params, s.last_params, h)
           THEN /\ pc' = "call"
                /\ args' = EngineArguments(params, h)
                /\ rate_list' = h[params.interest_rates_100]
                /\ page' = [shows |-> "spinner", message |-> <<>>,
                            result |-> None]
           ELSE /\ page' = Display(s)
                /\ UNCHANGED <<pc, args, rate_list>>
        /\ UNCHANGED <<engineLocals, returned, self>>

(* outputs.py lines 30-38: the engine has returned or raised. The result   *)
(* is stored with the copy of the parameter dict, which holds the same     *)
(* list object; "of" records the arguments the rows were computed from.    *)
render_dashboard_end ==
    /\ pc \in {"done", "error"}
    /\ pc' = "idle"
    /\ IF pc = "error"
       THEN /\ page' = [shows |-> "calculation error",
                        message |-> <<"Calculation error: " \o error>>,
                        result |-> None]
            /\ UNCHANGED session
       ELSE /\ session' =
                [session EXCEPT !.calculation_result =
                                    <<[rows |-> hist, of |-> args]>>,
                                !.last_params =
                                    <<get_current_parameters(session)>>]
            /\ page' = Display(session')
    /\ error' = ""
    /\ rates' = <<>>
    /\ hist' = <<>>
    /\ months_left' = 0
    /\ current_month' = 0
    /\ principal_left' = Zero
    /\ interest_rate_increase' = Zero
    /\ i' = 0
    /\ j' = 0
    /\ interest_rate' = Zero
    /\ interest_rate_monthly' = Zero
    /\ required_monthly_payment' = Zero
    /\ branch' = 0
    /\ UNCHANGED <<args, rate_list, returned, self, heap>>

(* A script run with no widget touched. *)
rerun ==
    /\ pc = "idle"
    /\ render_dashboard(session, heap)

(* inputs.py lines 41-64, 26: the loan amount is edited. *)
loan_amount_input ==
    /\ pc = "idle"
    /\ \E value \in DashboardLoans :
          render_dashboard([session EXCEPT !.loan_amount = value], heap)

(* inputs.py lines 67-74, 27: the term slider is moved. *)
loan_years_input ==
    /\ pc = "idle"
    /\ \E value \in 1..MaxYears :
          render_dashboard([session EXCEPT !.loan_years = value], heap)

(* inputs.py lines 174-218, 30-33: the refinancing box is ticked, with the *)
(* cycle chosen, or unticked, which brings back the values of line 218.    *)
refinance_checkbox ==
    /\ pc = "idle"
    /\ \/ \E cycle \in DashboardCycles :
             render_dashboard([session EXCEPT !.refinance = TRUE,
                                              !.refinance_cycle = cycle],
                              heap)
       \/ render_dashboard([session EXCEPT
                                !.refinance = FALSE,
                                !.refinance_cycle = 3,
                                !.refinance_threshold = DefaultThreshold,
                                !.rate_increase = 1],
                           heap)

(* inputs.py lines 103-105: Add appends the new rate to the session's list *)
(* and the script runs again.                                              *)
add_rate_button ==
    /\ pc = "idle"
    /\ Len(heap[session.interest_rates]) < MaxRates
    /\ \E new_rate \in DashboardRates :
          render_dashboard(session,
              [heap EXCEPT ![session.interest_rates] = Append(@, new_rate)])

(* inputs.py lines 122-132: a rate box is edited and its value written     *)
(* into the session's list.                                                *)
rate_input ==
    /\ pc = "idle"
    /\ \E k \in DOMAIN heap[session.interest_rates],
          updated_rate \in DashboardRates :
          render_dashboard(session,
              [heap EXCEPT ![session.interest_rates][k] = updated_rate])

(* inputs.py lines 135-137: a rate is removed from the session's list and  *)
(* the script runs again.                                                  *)
remove_rate_button ==
    /\ pc = "idle"
    /\ \E k \in DOMAIN heap[session.interest_rates] :
          render_dashboard(session,
              [heap EXCEPT ![session.interest_rates] =
                               SubSeq(@, 1, k - 1) \o SubSeq(@, k + 1, Len(@))])

DashboardInit ==
    /\ session = InitialSession
    /\ heap = [o \in Objects |-> IF o = 1 THEN <<12>> ELSE <<>>]
    /\ page = [shows |-> "nothing", message |-> <<>>, result |-> None]
    /\ args = EngineArguments(get_current_parameters(session), heap)
    /\ pc = "idle"
    /\ error = ""
    /\ rates = <<>>
    /\ hist = <<>>
    /\ months_left = 0
    /\ current_month = 0
    /\ principal_left = Zero
    /\ interest_rate_increase = Zero
    /\ i = 0
    /\ j = 0
    /\ interest_rate = Zero
    /\ interest_rate_monthly = Zero
    /\ required_monthly_payment = Zero
    /\ branch = 0
    /\ rate_list = <<>>
    /\ returned = {}
    /\ self = "none"

DashboardNext ==
    \/ rerun
    \/ loan_amount_input
    \/ loan_years_input
    \/ refinance_checkbox
    \/ add_rate_button
    \/ rate_input
    \/ remove_rate_button
    \/ Next
    \/ render_dashboard_end

DashboardSpec == DashboardInit /\ [][DashboardNext]_vars

-----------------------------------------------------------------------------
(* Properties of the schedule *)

Rows == 1..Len(hist)

LastRow == hist[Len(hist)]

Returned == pc = "done"

Raised == pc = "error"

(* The row's components added in the order of line 97. *)
SumOfComponents(row) ==
    FAdd(FAdd(FAdd(FAdd(row.principal, row.minimum_monthly_payment),
                   row.additional_payment), row.interest), row.topup)

(* What the row takes off the balance, added in the order of line 104. *)
BalanceReduction(row) ==
    FAdd(FAdd(FAdd(row.principal, row.minimum_monthly_payment),
              row.additional_payment), row.topup)

(* C1: the last row of every returned schedule has loan_end <= 0. *)
C1_LastRowRetired ==
    Returned => hist # <<>> /\ FLe(LastRow.loan_end, Zero)

(* C2: with non-negative minimum, additional and top-up amounts no row has *)
(* a negative loan_end.                                                    *)
C2_NeverNegative ==
    \A k \in Rows : FGe(hist[k].loan_end, Zero)

(* C3: every row's total is the sum of its principal, interest, minimum,   *)
(* additional and top-up components, the payoff row included.              *)
C3_TotalIsSum ==
    \A k \in Rows : hist[k].total = SumOfComponents(hist[k])

C3_Witness ==
    /\ branch = 4
    /\ hist # <<>>
    /\ LastRow.topup.m > 0
    /\ LastRow.additional_payment.m > 0
    /\ LastRow.minimum_monthly_payment.m > 0

(* C4: every row's loan_end is its loan_start less principal, minimum,     *)
(* additional and top-up; the interest is not taken off the balance.       *)
C4_BalanceRecurrence ==
    \A k \in Rows :
        hist[k].loan_end = FSub(hist[k].loan_start, BalanceReduction(hist[k]))

C4_Witness ==
    /\ hist # <<>>
    /\ branch = 0
    /\ LastRow.interest.m > 0
    /\ LastRow.topup.m > 0
    /\ LastRow.loan_end.m > 0

(* C5: the schedule has at most years*12 rows, only its last row can have  *)
(* loan_end <= 0, and no row starts from a balance <= 0.                   *)
C5_StopsAtPayoff ==
    /\ Len(hist) <= args.years * 12
    /\ \A k \in Rows : k < Len(hist) => FGt(hist[k].loan_end, Zero)
    /\ \A k \in Rows : FGt(hist[k].loan_start, Zero)

C5_Witness ==
    /\ Returned
    /\ hist # <<>>
    /\ Len(hist) < args.years * 12
    /\ Len(hist) % 12 # 0
    /\ LastRow.loan_end.m = 0

(* C6: loan_end never increases from one row to the next. *)
C6_NonIncreasing ==
    \A k \in Rows : k < Len(hist) => FLe(hist[k + 1].loan_end, hist[k].loan_end)

C6_Witness ==
    /\ Len(hist) > 12
    /\ interest_rate_increase.m > 0
    /\ hist[13].interest_rate_yearly # hist[12].interest_rate_yearly

-----------------------------------------------------------------------------
(* Properties of the validation *)

Called == pc # "call"

ValidationMessages ==
    {MsgEmpty, MsgRates, MsgThreshold, MsgCycle, MsgMoreRates, MsgTopupCycle,
     MsgTopupAmount}

(* The call ended in an assertion failure with no row emitted. *)
FailedValidation ==
    Raised /\ error \in ValidationMessages /\ hist = <<>>

SomeRateNotPositive ==
    \E k \in 1..Len(args.interest_rates_100) : args.interest_rates_100[k] <= 0

(* C7: an empty rate list, or a rate <= 0 at any position, fails the call  *)
(* with a validation error before any row is emitted.                      *)
C7_RatesValidated ==
    Called /\ (args.interest_rates_100 = <<>> \/ SomeRateNotPositive)
        => FailedValidation /\ error \in {MsgEmpty, MsgRates}

(* A rate <= 0 at a position the loop would never read. *)
C7_Witness ==
    /\ Raised
    /\ error = MsgRates
    /\ ~args.refinance
    /\ args.interest_rates_100[1] > 0
    /\ Len(args.interest_rates_100) > args.years

(* C8: a threshold >= loan fails the call with a validation error, with    *)
(* refinancing enabled or not; a threshold < loan never fails this check.  *)
C8_ThresholdValidated ==
    /\ Called /\ args.refinance_when_principal_hit >= args.loan
           => FailedValidation
    /\ Called /\ args.interest_rates_100 # <<>> /\ ~SomeRateNotPositive
           => (error = MsgThreshold
                   <=> args.refinance_when_principal_hit >= args.loan)

C8_Witness ==
    /\ Raised
    /\ error = MsgThreshold
    /\ args.refinance_when_principal_hit = args.loan
    /\ ~args.refinance

RefinanceMisconfigured ==
    \/ args.refinance_every_x_years <= 0
    \/ Len(args.interest_rates_100) < args.refinance_every_x_years

(* C9: with refinancing enabled a cycle <= 0, or fewer rates than the      *)
(* cycle, fails the call with a validation error; with refinancing         *)
(* disabled neither is checked.                                            *)
C9_RefinanceValidated ==
    /\ Called /\ args.refinance /\ RefinanceMisconfigured => FailedValidation
    /\ Called /\ args.interest_rates_100 # <<>> /\ ~SomeRateNotPositive
              /\ args.refinance_when_principal_hit < args.loan
           => (error \in {MsgCycle, MsgMoreRates}
                   <=> args.refinance /\ RefinanceMisconfigured)
    /\ ~args.refinance => error \notin {MsgCycle, MsgMoreRates}

C9_Witness ==
    /\ Raised
    /\ error = MsgMoreRates
    /\ args.refinance
    /\ args.refinance_every_x_years > Len(args.interest_rates_100)

TopupMisconfigured ==
    args.topup_every_x_month <= 0 \/ args.topup_amount <= 0

(* The arguments with other top-up values. *)
OtherTopups ==
    {[args EXCEPT !.topup_every_x_month = n, !.topup_amount = t] :
        n \in 0..2, t \in {0, 1, 300}}

(* The last row is of the loan-year whose payment is the current one. *)
LastRowOfThisYear == hist # <<>> /\ (pc = "yearend" \/ (pc = "month" /\ j > 0))

(* The row the engine emits for arguments a from the state the last row    *)
(* was emitted from.                                                       *)
LastRowFor(a) ==
    Row(Clamp(Unclamped(a, LastRow.loan_start, interest_rate_monthly,
                        required_monthly_payment, current_month),
              LastRow.loan_start),
        LastRow.loan_start, interest_rate)

(* C10: with top-up enabled a period <= 0 or an amount <= 0 fails the call *)
(* with a validation error; with top-up disabled the two values are not    *)
(* validated and no row depends on them.                                   *)
C10_TopupValidated ==
    /\ Called /\ args.topup /\ TopupMisconfigured => FailedValidation
    /\ Called /\ ValidationError([args EXCEPT !.topup = FALSE]) = ""
           => (error \in {MsgTopupCycle, MsgTopupAmount}
                   <=> args.topup /\ TopupMisconfigured)
    /\ ~args.topup =>
           /\ error \notin {MsgTopupCycle, MsgTopupAmount}
           /\ \A k \in Rows : hist[k].topup = Zero
           /\ LastRowOfThisYear => \A a \in OtherTopups : LastRowFor(a) = LastRow

(* Top-up disabled, values that would fail its validation, a row in a      *)
(* month that is a multiple of the period of other arguments.              *)
C10_Witness ==
    /\ ~args.topup
    /\ TopupMisconfigured
    /\ Returned
    /\ Len(hist) >= 7

-----------------------------------------------------------------------------
(* Properties of the payment and of the length of the schedule *)

(* The head of a loan-year was just run with a monthly rate of exactly 0:  *)
(* either it raised, or the first month of the year is about to start.     *)
ZeroRateYear ==
    /\ rates # <<>>
    /\ interest_rate_monthly.m = 0
    /\ pc = "error" \/ (pc = "month" /\ j = 0)

(* C11: in a loan-year whose effective monthly rate is exactly 0 the       *)
(* payment is balance / months_remaining and no numeric error is raised.   *)
C11_ZeroRatePayment ==
    ZeroRateYear =>
        /\ pc = "month"
        /\ error = ""
        /\ required_monthly_payment = FDiv(principal_left, F(months_left))

EarlierWithNoMore(r) ==
    /\ r.error = ""
    /\ r.args = [args EXCEPT !.additional_payment = r.args.additional_payment]
    /\ r.args.additional_payment <= args.additional_payment

(* C13: every other argument held fixed, a larger additional payment never *)
(* gives a schedule of more rows.                                          *)
C13_MoreNeverLonger ==
    Returned =>
        \A r \in returned : EarlierWithNoMore(r) => Len(hist) <= Len(r.hist)

(* sum() of the principal column over the first n rows. *)
RECURSIVE SumOfPrincipal(_, _)
SumOfPrincipal(h, n) ==
    IF n = 0 THEN Zero ELSE FAdd(SumOfPrincipal(h, n - 1), h[n].principal)

(* x and y differ by no more than a few units in the last place of y. *)
WithinRounding(x, y) ==
    LET d == FSub(x, y)
    IN  FLe([m |-> Abs(d.m), e |-> d.e],
            FMul([m |-> Abs(y.m), e |-> y.e], [m |-> 1, e |-> 4 - Precision]))

(* No minimum, no additional payment, no top-up, no refinancing. *)
NoExtras ==
    /\ args.minimum_monthly_payment = 0
    /\ args.additional_payment = 0
    /\ ~args.topup
    /\ ~args.refinance

Finished == pc \in {"done", "error"}

(* C14: the call with years = 1, rates [12.0] and every other parameter at *)
(* its default returns 12 rows whose principal components sum to the loan  *)
(* and whose last loan_end is 0; any call without extras returns years*12  *)
(* rows whose principal components sum to the loan.                        *)
C14_NoExtrasSchedule ==
    /\ Finished /\ NoExtras /\ args.years = 1
                /\ args.interest_rates_100 = <<12>>
                /\ args.refinance_when_principal_hit = DefaultThreshold
           => /\ Returned
              /\ Len(hist) = 12
              /\ WithinRounding(SumOfPrincipal(hist, 12), F(args.loan))
              /\ LastRow.loan_end = Zero
    /\ Finished /\ NoExtras /\ ValidationError(args) = ""
           => /\ Returned
              /\ Len(hist) = args.years * 12
              /\ WithinRounding(SumOfPrincipal(hist, Len(hist)), F(args.loan))

-----------------------------------------------------------------------------
(* Properties of the rates and of the payoff clamp *)

(* The spec's refinance scenario: cycle 1, rate increase 1.0. *)
YearlyRefinance ==
    /\ args.refinance
    /\ args.refinance_every_x_years = 1
    /\ args.refinance_interest_will_increase = 1

(* The year-1 nominal rate plus 1.0 percentage point, as a row carries it. *)
YearOneRatePlusOne == FDiv(FAdd(F(args.interest_rates_100[1]), F(1)), F(100))

(* C15 as claimed: with cycle 1, increase 1.0 and the threshold equal to   *)
(* the principal the engine returns a schedule whose first row of year 2   *)
(* carries the year-1 nominal rate plus 1.0.                               *)
C15_ThresholdAtPrincipal ==
    Finished /\ YearlyRefinance /\ args.years >= 2
             /\ args.refinance_when_principal_hit = args.loan
             /\ ValidationError([args EXCEPT !.refinance_when_principal_hit = 0]) = ""
        => /\ Returned
           /\ Len(hist) > 12
           /\ hist[13].interest_rate_yearly = YearOneRatePlusOne

(* C15, amended: with cycle 1 and increase 1.0 a threshold equal to the    *)
(* principal fails validation; with a threshold below the principal that   *)
(* the balance at the end of year 1 has come down to, the first row of     *)
(* year 2 carries the year-1 nominal rate plus 1.0.                        *)
C15_RateAfterRefinance ==
    /\ Called /\ YearlyRefinance
              /\ args.refinance_when_principal_hit = args.loan
           => FailedValidation
    /\ YearlyRefinance /\ Len(hist) > 12
              /\ FLe(hist[12].loan_end, F(args.refinance_when_principal_hit))
           => /\ hist[12].interest_rate_yearly =
                     FDiv(F(args.interest_rates_100[1]), F(100))
              /\ hist[13].interest_rate_yearly = YearOneRatePlusOne

C15_Witness ==
    /\ YearlyRefinance
    /\ Returned
    /\ Len(hist) > 12
    /\ FLe(hist[12].loan_end, F(args.refinance_when_principal_hit))
    /\ hist[13].interest_rate_yearly = YearOneRatePlusOne
    /\ hist[13].interest_rate_yearly # hist[12].interest_rate_yearly
    /\ args.refinance_when_principal_hit < args.loan

(* The last row was clamped, and the payment and the rate are still those  *)
(* of its loan-year.                                                       *)
LastRowClamped == LastRowOfThisYear /\ branch # 0

(* The components of the last row before the clamp. *)
LastRowUnclamped ==
    Unclamped(args, LastRow.loan_start, interest_rate_monthly,
              required_monthly_payment, current_month)

(* C17: in a clamped row exactly one component is cut down to what is left *)
(* of the balance, in the order principal, minimum, additional, top-up:    *)
(* the components before it keep their unclamped values, the ones after it *)
(* are 0.                                                                  *)
C17_PriorityCascade ==
    LastRowClamped =>
        LET u  == LastRowUnclamped
            r  == LastRow
            pl == LastRow.loan_start
        IN  /\ branch = 1 =>
                   /\ r.principal = pl
                   /\ FLe(r.principal, u.principal)
                   /\ r.minimum_monthly_payment = Zero
                   /\ r.additional_payment = Zero
                   /\ r.topup = Zero
            /\ branch = 2 =>
                   /\ r.principal = u.principal
                   /\ r.minimum_monthly_payment = FSub(pl, u.principal)
                   /\ FLe(r.minimum_monthly_payment, u.minimum)
                   /\ r.additional_payment = Zero
                   /\ r.topup = Zero
            /\ branch = 3 =>
                   /\ r.principal = u.principal
                   /\ r.minimum_monthly_payment = u.minimum
                   /\ r.additional_payment =
                          FSub(pl, FAdd(u.principal, u.minimum))
                   /\ FLe(r.additional_payment, u.addition)
                   /\ r.topup = Zero
            /\ branch = 4 =>
                   /\ r.principal = u.principal
                   /\ r.minimum_monthly_payment = u.minimum
                   /\ r.additional_payment = u.addition
                   /\ r.topup = FSub(FSub(FSub(pl, u.principal), u.minimum),
                                     u.addition)
                   /\ FLe(r.topup, u.topup)
            /\ branch \in 1..4

(* The additional payment cut down behind a full minimum component. *)
C17_Witness ==
    /\ LastRowClamped
    /\ branch = 3
    /\ LastRow.minimum_monthly_payment.m > 0
    /\ LastRow.additional_payment.m > 0
    /\ LastRow.additional_payment # F(args.additional_payment)

(* A loan-year is under way: its rate and payment are computed. *)
InYear == pc \in {"month", "yearend"}

(* The position in the supplied list that loan-year y reads when           *)
(* refinancing tiles the first c rates.                                    *)
TiledPosition(y) == (y % args.refinance_every_x_years) + 1

(* C18: with refinancing enabled the derived list has exactly years        *)
(* entries, loan-year y reads the supplied rate at position y mod cycle,   *)
(* and the rates supplied beyond the cycle are never read.                 *)
C18_TiledRates ==
    args.refinance /\ rates # <<>> =>
        /\ Len(rates) = args.years
        /\ \A y \in 0..(args.years - 1) :
               /\ rates[y + 1] = args.interest_rates_100[TiledPosition(y)]
               /\ TiledPosition(y) <= args.refinance_every_x_years
        /\ InYear =>
               interest_rate =
                   FDiv(FAdd(F(args.interest_rates_100[TiledPosition(i)]),
                             interest_rate_increase), F(100))

(* The third loan-year of a cycle of 2 reads the first rate again; the     *)
(* third rate supplied is never read.                                      *)
C18_Witness ==
    /\ args.refinance
    /\ args.refinance_every_x_years = 2
    /\ args.interest_rates_100 = <<6, 12, 24>>
    /\ pc = "month"
    /\ i = 2
    /\ j > 0
    /\ LastRow.interest_rate_yearly = interest_rate

(* The supplied rate loan-year y reads when refinancing is disabled. *)
HeldRate(y) ==
    IF y < Len(args.interest_rates_100)
    THEN args.interest_rates_100[y + 1]
    ELSE args.interest_rates_100[Len(args.interest_rates_100)]

(* C19: with refinancing disabled loan-year y applies the supplied rate of *)
(* position y, and the last supplied rate beyond the list.                 *)
C19_LastRateHeld ==
    ~args.refinance =>
        /\ InYear => interest_rate = FDiv(F(HeldRate(i)), F(100))
        /\ \A k \in Rows :
               hist[k].interest_rate_yearly =
                   FDiv(F(HeldRate((k - 1) \div 12)), F(100))

(* Two rates supplied, a row of the third loan-year. *)
C19_Witness ==
    /\ ~args.refinance
    /\ args.interest_rates_100 = <<24, 12>>
    /\ Len(hist) > 24
    /\ LastRow.interest_rate_yearly = FDiv(F(12), F(100))

(* The refinance event of line 113 at the end of the loan-year, spelled    *)
(* out on the state.                                                       *)
EventAtYearEnd ==
    /\ pc = "yearend"
    /\ args.refinance
    /\ (i + 1) % args.refinance_every_x_years = 0
    /\ FLe(principal_left, F(args.refinance_when_principal_hit))

(* One step of the offset: up by refinance_interest_will_increase at an    *)
(* event, unchanged otherwise, and the rows emitted so far stay as they    *)
(* are.                                                                    *)
OffsetStep ==
    /\ interest_rate_increase' =
           IF EventAtYearEnd
           THEN FAdd(interest_rate_increase,
                     F(args.refinance_interest_will_increase))
           ELSE interest_rate_increase
    /\ EventAtYearEnd /\ args.refinance_interest_will_increase > 0
           => FGt(interest_rate_increase', interest_rate_increase)
    /\ FGe(interest_rate_increase', interest_rate_increase)
    /\ Len(hist') >= Len(hist)
    /\ SubSeq(hist', 1, Len(hist)) = hist

(* The offset is 0 until the first loan-year has ended, and the rows of one     *)
(* loan-year carry one rate.                                               *)
OffsetState ==
    /\ i = 0 /\ pc \notin {"done", "error"} => interest_rate_increase = Zero
    /\ \A k, l \in Rows :
           (k - 1) \div 12 = (l - 1) \div 12
               => hist[k].interest_rate_yearly = hist[l].interest_rate_yearly

(* C20: the offset starts at 0, never decreases and grows by               *)
(* refinance_interest_will_increase exactly at the end of a loan-year      *)
(* whose number is a multiple of the cycle and whose balance is at or      *)
(* below the threshold, with refinancing enabled; no row already emitted   *)
(* changes, and the rows of one loan-year carry the same rate.             *)
C20_OffsetGrowsAtEvents == []OffsetState /\ [][OffsetStep]_vars

(* The offset has grown twice. *)
C20_Witness ==
    /\ interest_rate_increase = F(2)
    /\ pc = "month"
    /\ j > 0
    /\ LastRow.interest_rate_yearly # hist[1].interest_rate_yearly

(* C16: the engine keeps nothing between calls. A call with the arguments  *)
(* of an earlier call ends as that call did, whatever calls came between,  *)
(* and the list object passed for the rates holds after the call what it   *)
(* held before, also when refinancing tiles the rates.                     *)
C16_NoStateBetweenCalls ==
    /\ rate_list = args.interest_rates_100
    /\ Finished =>
           \A r \in returned :
               r.args = args => r.hist = hist /\ r.error = error

(* A repeated call that tiled the rates, with a different call before it. *)
C16_Witness ==
    /\ Returned
    /\ args.refinance
    /\ rates # args.interest_rates_100
    /\ \E r \in returned : r.args = args /\ r.hist = hist /\ hist # <<>>
    /\ \E r \in returned : r.args # args

-----------------------------------------------------------------------------
(* Properties of the monthly components *)

(* The annuity payment that retires balance b in n months at monthly rate  *)
(* rm: b * rm * (1 + rm)^n / ((1 + rm)^n - 1).                             *)
Annuity(b, rm, n) ==
    LET growth == FPow(FAdd(F(1), rm), n)
    IN  FDiv(FMul(FMul(b, rm), growth), FSub(growth, F(1)))

(* The rows of the loan-year under way. *)
RowsOfThisYear == {k \in Rows : k > 12 * i}

(* The standard payment of the loan-year under way, from the balance its   *)
(* first row starts with and the months left at its start.                 *)
StandardOfThisYear ==
    Annuity(hist[12 * i + 1].loan_start, FDiv(interest_rate, F(12)),
            args.years * 12 - 12 * i)

(* Row k kept its principal: it is not the row the first payoff branch     *)
(* cut down.                                                               *)
PrincipalKept(k) == k < Len(hist) \/ branch # 1

(* C21 as stated: within one loan-year every row before the payoff row has *)
(* the same principal + interest, and that value is the annuity payment    *)
(* for the year-start balance over the year-start remaining months.        *)
C21_SamePayment ==
    InYear /\ Len(hist) > 12 * i =>
        LET standard == StandardOfThisYear
        IN  \A k \in RowsOfThisYear :
                PrincipalKept(k) =>
                    FAdd(hist[k].principal, hist[k].interest) = standard

(* C21, amended: within one loan-year every row before the payoff row has  *)
(* the principal that the annuity payment for the year-start balance over  *)
(* the year-start remaining months leaves after the row's interest, so     *)
(* principal + interest is that payment up to the rounding of the sum.     *)
C21_PaymentOncePerYear ==
    InYear /\ Len(hist) > 12 * i =>
        LET standard == StandardOfThisYear
        IN  \A k \in RowsOfThisYear :
                PrincipalKept(k) =>
                    /\ hist[k].principal = FSub(standard, hist[k].interest)
                    /\ WithinRounding(
                           FAdd(hist[k].principal, hist[k].interest),
                           standard)

(* Rows of the second loan-year after a year of additional payments: the   *)
(* payment is not that of the first loan-year.                             *)
C21_Witness ==
    /\ pc = "month"
    /\ i = 1
    /\ j >= 2
    /\ args.additional_payment > 0
    /\ hist[13].principal # FSub(FAdd(hist[1].principal, hist[1].interest),
                                 hist[13].interest)
    /\ hist[14].principal = FSub(StandardOfThisYear, hist[14].interest)

(* Row k is the k-th month of the loan, and a top-up falls due in it. *)
TopupMonth(k) == args.topup /\ k % args.topup_every_x_month = 0

(* C22: a row's top-up is non-zero only if top-up is enabled and the row's *)
(* month number, counted from 1 across the whole loan, is a multiple of    *)
(* topup_every_x_month; in such a row that no payoff branch cut, the       *)
(* top-up is topup_amount; the month counter runs on across the years.     *)
C22_TopupMonths ==
    /\ current_month = Len(hist)
    /\ \A k \in Rows : hist[k].topup # Zero => TopupMonth(k)
    /\ hist # <<>> /\ branch = 0 /\ TopupMonth(Len(hist))
           => LastRow.topup = F(args.topup_amount)

(* A top-up in month 14, the second month of the second loan-year, with a  *)
(* period of 7 months.                                                     *)
C22_Witness ==
    /\ args.topup
    /\ args.topup_every_x_month = 7
    /\ Len(hist) = 14
    /\ branch = 0
    /\ LastRow.topup = F(args.topup_amount)
    /\ hist[7].topup = F(args.topup_amount)
    /\ hist[13].topup = Zero

(* x is at least y, or short of it by rounding only. *)
AtLeastWithinRounding(x, y) == FGe(x, y) \/ WithinRounding(x, y)

(* The last row is of the loan-year under way and no payoff branch cut it. *)
LastRowNotClamped == LastRowOfThisYear /\ branch = 0

(* max(minimum_monthly_payment - standard payment, 0). *)
FloorOfThisYear(standard) ==
    LET short == FSub(F(args.minimum_monthly_payment), standard)
    IN  IF FGt(short, Zero) THEN short ELSE Zero

(* principal + interest + minimum component of the last row. *)
FlooredPayment ==
    FAdd(FAdd(LastRow.principal, LastRow.interest),
         LastRow.minimum_monthly_payment)

(* C23 as stated: in a row that is not payoff-clamped the minimum          *)
(* component is max(minimum_monthly_payment - standard payment, 0), so     *)
(* principal + interest + minimum component is at least                    *)
(* minimum_monthly_payment, and the component is 0 when the standard       *)
(* payment meets the minimum.                                              *)
C23_MinimumFloor ==
    LastRowNotClamped =>
        LET standard == StandardOfThisYear
        IN  /\ LastRow.minimum_monthly_payment = FloorOfThisYear(standard)
            /\ FGe(FlooredPayment, F(args.minimum_monthly_payment))
            /\ FGe(standard, F(args.minimum_monthly_payment))
                   => LastRow.minimum_monthly_payment = Zero

(* C23, amended: the same, with principal + interest + minimum component   *)
(* at least minimum_monthly_payment up to rounding.                        *)
C23_MinimumFloorRounded ==
    LastRowNotClamped =>
        LET standard == StandardOfThisYear
        IN  /\ LastRow.minimum_monthly_payment = FloorOfThisYear(standard)
            /\ AtLeastWithinRounding(FlooredPayment,
                                     F(args.minimum_monthly_payment))
            /\ FGe(standard, F(args.minimum_monthly_payment))
                   => LastRow.minimum_monthly_payment = Zero

(* A row topped up to the minimum whose floored payment falls short of the *)
(* minimum by rounding.                                                    *)
C23_Witness ==
    /\ LastRowNotClamped
    /\ args.minimum_monthly_payment > 0
    /\ FGt(LastRow.minimum_monthly_payment, Zero)
    /\ FLt(FlooredPayment, F(args.minimum_monthly_payment))

-----------------------------------------------------------------------------
(* Properties of the engine variant and of MortgageState *)

(* C24: the last row of a schedule the engine variant returns has          *)
(* loan_end <= 0.                                                          *)
C24_VariantRetiresLoan ==
    pc = "done" /\ hist # <<>> => LastRow.loan_end <= 0

(* C25: in every month of one computation of the engine variant the        *)
(* minimum_monthly_payment and the additional_payment it applies are the   *)
(* values the caller passed, also after a row a payoff branch handled.     *)
C25_ConfigurationKept ==
    pc = "month" =>
        /\ args.minimum_monthly_payment = self.minimum_monthly_payment
        /\ args.additional_payment = self.additional_payment

(* calculate is not under way. *)
Idle == pc = "idle"

(* After a call: loading is False; an engine that raised left a message,   *)
(* one that returned left none and its schedule is the result.             *)
AfterCalculate ==
    Idle =>
        /\ ~self.loading
        /\ error # "" => self.error_message # ""
        /\ error = "" =>
               self.error_message = "" /\ self.calculation_result = hist

(* The result changes only when the engine has returned, and then to the   *)
(* schedule it returned: a call that raises keeps the previous result.     *)
ResultStep ==
    self'.calculation_result # self.calculation_result =>
        pc = "done" /\ self'.calculation_result = hist

(* C26: calculate catches every failure of the engine: after any call      *)
(* loading is False; if the engine raised, error_message is not empty and  *)
(* calculation_result keeps its previous value; if it returned,            *)
(* error_message is empty and calculation_result is the new schedule.      *)
C26_CalculateCatches == []AfterCalculate /\ [][ResultStep]_vars

(* A call that raised after one that returned: the message is set and the  *)
(* earlier schedule is still the result.                                   *)
C26_Witness ==
    /\ Idle
    /\ error = MsgCycle
    /\ self.error_message # ""
    /\ self.calculation_result # <<>>
    /\ ~self.loading

(* The rates stored under name n in the fields s with the lists h. *)
StoredRates(s, h, n) == h[s.scenarios[n].interest_rates]

(* A step of save_scenario: nothing is calculated and the scenario holds   *)
(* the current rates.                                                      *)
SaveStep(n) ==
    /\ pc = "idle"
    /\ pc' = "idle"
    /\ StoredRates(self', heap', n) = heap[self.interest_rates]

(* C29: the rates stored under a name change only through another          *)
(* save_scenario of that name (or go with delete_scenario); load_scenario, *)
(* add_interest_rate, remove_interest_rate and update_interest_rate leave  *)
(* them as they were saved.                                                *)
C29_ScenarioIsSnapshot ==
    [][\A n \in (DOMAIN self.scenarios) \cap (DOMAIN self'.scenarios) :
           StoredRates(self', heap', n) # StoredRates(self, heap, n)
               => SaveStep(n)]_vars

-----------------------------------------------------------------------------
(* Properties of the Streamlit front ends *)
(* C27: every column the Streamlit app reads from the engine's result      *)
(* after Calculate is a key of the mapping the engine returns, so a        *)
(* scenario the engine accepts gets a results row and no error.            *)
C27_ColumnsAreKeys ==
    pc = "shown" /\ hist # <<>> /\ error = "" =>
        /\ \A k \in DOMAIN ColumnsRead(hist) : ColumnsRead(hist)[k] \in HistKeys
        /\ page.errors = <<>>
        /\ Len(page.results_data) = 1

(* C28: in the dashboard the cached result is never stale: a render that   *)
(* shows results shows the rows the engine computed from the parameters    *)
(* the session holds now.                                                  *)
C28_CachedResultCurrent ==
    pc = "idle" /\ page.shows = "results" =>
        page.result[1].of = EngineArguments(get_current_parameters(session), heap)

(* C30: the parameters validate_inputs accepts pass the engine's own       *)
(* validation: a render that passed validate_inputs never has the engine   *)
(* raise one of its validation messages.                                   *)
C30_AcceptedByEngine ==
    /\ pc = "error"
    /\ validate_inputs(get_current_parameters(session), heap) = <<>>
    => error \notin ValidationMessages

====
